---- MODULE Spec2Model ----
(***************************************************************************)
(* A model of convex-api-py's Account class (src/convex_api/account.py)    *)
(* and of the starfish DID registry contract deployed by the integration   *)
(* tests (src/tests/intergration/test_starfish_contracts.py).              *)
(*                                                                         *)
(* Conventions: an optional value is a sequence of length 0 (None) or 1.   *)
(* Text is a sequence of one-character strings; bytes are sequences of     *)
(* integers in 0..255.  The cryptographic primitives of the libraries the  *)
(* code calls (Ed25519, the PKCS8 password-based encryption) are modelled  *)
(* symbolically: a ciphertext opens exactly under the key it was sealed    *)
(* with, and a public key / signature is a term over the private seed.     *)
(***************************************************************************)
EXTENDS Integers, Sequences, FiniteSets, TLC

VARIABLES account, files, last, registry, rlast, fund, peer, topup

vars == <<account, files, last, registry, rlast, fund, peer, topup>>

None == <<>>
Some(x) == <<x>>

Ok(v) == [ok |-> TRUE, err |-> "", val |-> Some(v)]
Err(e) == [ok |-> FALSE, err |-> e, val |-> None]

(***************************************************************************)
(* Bounds of the model.                                                    *)
(***************************************************************************)
NumKeys == 2
NumSalts == 2
MaxAddr == 10
MaxNeg == 2
NumDids == 1
NumCallers == 3
NumDdos == 2
MaxAmount == 2
MaxBalance == 100
DEFAULT_FUND_AMOUNT == 100000000
FUND_ROUNDS == 4
MaxUnits == 10
AMOUNT == 10000000
RETRY_COUNTER == 100

(***************************************************************************)
(* Library constants.                                                      *)
(***************************************************************************)
ED25519_KEY_SIZE == 32
WORD_BITS == 11

(***************************************************************************)
(* The length assert-did requires of a DID's text.                         *)
(***************************************************************************)
DID_LENGTH == 64

RECURSIVE Pow2(_)
Pow2(n) == IF n = 0 THEN 1 ELSE 2 * Pow2(n - 1)

BytesToBits(bs) ==
    [j \in 1..(Len(bs) * 8) |-> (bs[((j - 1) \div 8) + 1] \div Pow2(7 - ((j - 1) % 8))) % 2]

RECURSIVE BitsVal(_, _, _)
BitsVal(bits, lo, n) ==
    IF n = 0 THEN 0 ELSE 2 * BitsVal(bits, lo, n - 1) + bits[lo + n - 1]

BitsToBytes(bits) ==
    [i \in 1..(Len(bits) \div 8) |-> BitsVal(bits, (i - 1) * 8 + 1, 8)]

IntToBits(v, n) == [j \in 1..n |-> (v \div Pow2(n - j)) % 2]

(***************************************************************************)
(* Key material: Ed25519PrivateKey of the cryptography library.            *)
(***************************************************************************)
SeedOf(s) == [i \in 1..ED25519_KEY_SIZE |-> (s * 89 + i * (s + 3) * 7 + 11) % 256]

Seeds == {SeedOf(s) : s \in 1..NumKeys}

\* Ed25519PrivateKey.generate(): any key the random source can yield.
Generate == {[seed |-> sd] : sd \in Seeds}

\* Ed25519PrivateKey.from_private_bytes(value)
from_private_bytes(value) ==
    IF Len(value) # ED25519_KEY_SIZE
    THEN Err("InvalidKeyFormat")
    ELSE Ok([seed |-> value])

\* private_key.public_key(): a one-way, deterministic function of the seed.
public_key_of(private_key) == [point_of |-> private_key.seed]

\* private_key.private_bytes(Raw, Raw, NoEncryption())
private_bytes_raw(private_key) == private_key.seed

\* public_key.public_bytes(Raw, Raw)
public_bytes_raw(public_key) == [raw_point_of |-> public_key.point_of]

\* private_key.sign(data): Ed25519 signatures are deterministic.
ed25519_sign(private_key, data) == [signed_by |-> private_key.seed, data |-> data]

(***************************************************************************)
(* Passwords and text: str or bytes, as the code's isinstance tests see    *)
(* them.  A str holds code points, bytes hold octets.                      *)
(***************************************************************************)
Str(s) == [t |-> "str", s |-> s]
Bytes(s) == [t |-> "bytes", s |-> s]

\* UTF-8 encoding of one code point (str.encode()'s default codec).
Utf8(cp) ==
    IF cp < 128 THEN <<cp>>
    ELSE IF cp < 2048 THEN <<192 + (cp \div 64), 128 + (cp % 64)>>
    ELSE <<224 + (cp \div 4096), 128 + ((cp \div 64) % 64), 128 + (cp % 64)>>

RECURSIVE str_encode(_)
str_encode(s) == IF s = <<>> THEN <<>> ELSE Utf8(Head(s)) \o str_encode(Tail(s))

\* if isinstance(password, str): password = password.encode()
password_bytes(password) ==
    IF password.t = "str" THEN str_encode(password.s) ELSE password.s

(***************************************************************************)
(* The encrypted PEM archive (PKCS8, password-based encryption).  The key  *)
(* derived from a password and a salt is the term SymKey(pw, salt); the    *)
(* archive opens exactly under the key that sealed it.                     *)
(***************************************************************************)
SymKey(pw, salt) == [pw |-> pw, salt |-> salt]

Archive(label, salt, key, payload) ==
    [label |-> label, salt |-> salt, key |-> key, payload |-> payload]

\* A text that is no PEM archive at all.
GarbagePem == Archive("GARBAGE", 0, SymKey(<<>>, 0), <<>>)

\* serialization.BestAvailableEncryption(password): rejects an empty password.
BestAvailableEncryption(password) ==
    IF Len(password) = 0 THEN Err("ValueError") ELSE Ok(password)

\* private_key.private_bytes(PEM, PKCS8, encryption_algorithm) under a fresh salt.
private_bytes_pem(private_key, enc_password, salt) ==
    Archive("ENCRYPTED PRIVATE KEY", salt, SymKey(enc_password, salt), private_key.seed)

\* serialization.load_pem_private_key(text, password, backend)
load_pem_private_key(pem, password) ==
    IF pem.label # "ENCRYPTED PRIVATE KEY" THEN Err("InvalidKeyFormat")
    ELSE IF SymKey(password, pem.salt) # pem.key THEN Err("DecryptionError")
    ELSE from_private_bytes(pem.payload)

\* bytes.decode() / str.encode() of a PEM text (ASCII): only the type changes.
Text(t, pem) == [t |-> t, pem |-> pem]
text_decode(pem) == Text("str", pem)
text_bytes(text) == text.pem

(***************************************************************************)
(* Mnemonic('english'): the checksum-bearing word-list encoding.  A word   *)
(* is represented by its index in the 2048-word list.  Checksum(data)      *)
(* stands for the leading bits of the digest of data.                      *)
(***************************************************************************)
RECURSIVE WeightedSum(_, _)
WeightedSum(data, i) ==
    IF i = 0 THEN 0 ELSE (i * data[i] + 3 * WeightedSum(data, i - 1)) % 256

Digest(data) == IntToBits((WeightedSum(data, Len(data)) + 90) % 256, 8)

Checksum(data) == SubSeq(Digest(data), 1, (Len(data) * 8) \div 32)

\* Mnemonic.to_mnemonic(data)
to_mnemonic(data) ==
    IF Len(data) \notin {16, 20, 24, 28, 32} THEN Err("ValueError")
    ELSE LET b == BytesToBits(data) \o Checksum(data)
         IN Ok([i \in 1..(Len(b) \div WORD_BITS) |->
                    BitsVal(b, (i - 1) * WORD_BITS + 1, WORD_BITS)])

RECURSIVE WordsToBits(_)
WordsToBits(words) ==
    IF words = <<>> THEN <<>>
    ELSE IntToBits(Head(words), WORD_BITS) \o WordsToBits(Tail(words))

\* Mnemonic.to_entropy(words)
to_entropy(words) ==
    IF Len(words) \notin {12, 15, 18, 21, 24} THEN Err("InvalidMnemonic")
    ELSE IF \E i \in 1..Len(words) : words[i] \notin 0..(Pow2(WORD_BITS) - 1)
    THEN Err("InvalidMnemonic")
    ELSE LET bits == WordsToBits(words)
             cs == Len(bits) \div 33
             ent == Len(bits) - cs
             entropy == BitsToBytes(SubSeq(bits, 1, ent))
         IN IF SubSeq(bits, ent + 1, Len(bits)) # Checksum(entropy)
            THEN Err("InvalidMnemonic")
            ELSE Ok(entropy)

(***************************************************************************)
(* eth_utils: to_bytes(hexstr=...) and to_hex(bytes).  A hex string is a   *)
(* sequence of digit values 0..15.                                         *)
(***************************************************************************)
to_bytes_hexstr(hexstr) ==
    LET h == IF Len(hexstr) % 2 = 1 THEN <<0>> \o hexstr ELSE hexstr
    IN [i \in 1..(Len(h) \div 2) |-> 16 * h[2 * i - 1] + h[2 * i]]

to_hex(value) == [hex_of |-> value]

(***************************************************************************)
(* Address-like values a caller can pass: an int, a str, another account   *)
(* (of which a holds the optional address), or nothing (Python's None).    *)
(***************************************************************************)
IntV(n) == [t |-> "int", n |-> n, s |-> <<>>, a |-> None]
StrV(s) == [t |-> "str", n |-> 0, s |-> s, a |-> None]
AcctV(a) == [t |-> "account", n |-> 0, s |-> <<>>, a |-> a]
NoAddr == [t |-> "None", n |-> 0, s |-> <<>>, a |-> None]

Digits == <<"0", "1", "2", "3", "4", "5", "6", "7", "8", "9">>
DigitSet == {Digits[i] : i \in 1..10}
DigitVal(c) == (CHOOSE i \in 1..10 : Digits[i] = c) - 1
Whitespace == {" ", "\t"}

\* str(n) for an integer n
RECURSIVE NatToStr(_)
NatToStr(n) == IF n < 10 THEN <<Digits[n + 1]>> ELSE NatToStr(n \div 10) \o <<Digits[(n % 10) + 1]>>
IntToStr(n) == IF n < 0 THEN <<"-">> \o NatToStr(-n) ELSE NatToStr(n)

\* str.strip()
RECURSIVE LStrip(_)
LStrip(s) == IF s # <<>> /\ Head(s) \in Whitespace THEN LStrip(Tail(s)) ELSE s
RECURSIVE RStrip(_)
RStrip(s) ==
    IF s # <<>> /\ s[Len(s)] \in Whitespace THEN RStrip(SubSeq(s, 1, Len(s) - 1)) ELSE s
Strip(s) == RStrip(LStrip(s))

RECURSIVE ParseDigits(_)
ParseDigits(s) ==
    IF s = <<>> THEN 0
    ELSE 10 * ParseDigits(SubSeq(s, 1, Len(s) - 1)) + DigitVal(s[Len(s)])

IsDigits(s) == s # <<>> /\ \A i \in 1..Len(s) : s[i] \in DigitSet

\* Mutant: the leading marker is not stripped.
to_address_keep_marker(value) ==
    CASE value.t = "int" ->
            IF value.n >= 0 THEN Ok(value.n) ELSE Err("InvalidAddress")
      [] value.t = "str" ->
            LET s == Strip(value.s)
            IN IF IsDigits(s) THEN Ok(ParseDigits(s)) ELSE Err("InvalidAddress")
      [] value.t = "account" ->
            IF value.a # None THEN Ok(value.a[1]) ELSE Err("InvalidAddress")
      [] OTHER -> Err("InvalidAddress")

\* convex_api.utils.to_address, the address normalizer.
to_address(value) ==
    CASE value.t = "int" ->
            IF value.n >= 0 THEN Ok(value.n) ELSE Err("InvalidAddress")
      [] value.t = "str" ->
            LET s == Strip(value.s)
                body == IF s # <<>> /\ Head(s) = "#" THEN Tail(s) ELSE s
            IN IF IsDigits(body) THEN Ok(ParseDigits(body)) ELSE Err("InvalidAddress")
      [] value.t = "account" ->
            IF value.a # None THEN Ok(value.a[1]) ELSE Err("InvalidAddress")
      [] OTHER -> Err("InvalidAddress")

(***************************************************************************)
(* class Account                                                           *)
(***************************************************************************)
AccountObj(private_key, public_key, address) ==
    [private_key |-> private_key, public_key |-> public_key, address |-> address]

\* Mutant: "if address:" in place of "if address is not None:".
Account_init_truthy(private_key, address) ==
    IF /\ address.t # "None"
       /\ ~(address.t = "int" /\ address.n = 0)
       /\ ~(address.t = "str" /\ address.s = <<>>)
    THEN LET r == to_address(address)
         IN IF r.ok
            THEN Ok(AccountObj(private_key, public_key_of(private_key), r.val))
            ELSE Err(r.err)
    ELSE Ok(AccountObj(private_key, public_key_of(private_key), None))

\* Mutant: the public key is taken from a freshly generated key, not from
\* the private key handed in.
Account_init_other_public(private_key, address) ==
    LET fresh == [seed |-> SeedOf(1)]
    IN IF address.t # "None"
       THEN LET r == to_address(address)
            IN IF r.ok
               THEN Ok(AccountObj(private_key, public_key_of(fresh), r.val))
               ELSE Err(r.err)
       ELSE Ok(AccountObj(private_key, public_key_of(fresh), None))

\* Account.__init__(self, private_key, address=None)
Account_init(private_key, address) ==
    IF address.t # "None"
    THEN LET r == to_address(address)
         IN IF r.ok
            THEN Ok(AccountObj(private_key, public_key_of(private_key), r.val))
            ELSE Err(r.err)
    ELSE Ok(AccountObj(private_key, public_key_of(private_key), None))

\* Account.sign(self, hash_text): the returned hex string
sign(self, hash_text) ==
    LET hash_data == to_bytes_hexstr(hash_text)
        signed_hash_bytes == ed25519_sign(self.private_key, hash_data)
    IN to_hex(signed_hash_bytes)

\* Account.export_to_text(self, password), the archive sealed under salt
export_to_text(self, password, salt) ==
    LET enc == BestAvailableEncryption(password_bytes(password))
    IN IF enc.ok
       THEN Ok(text_decode(private_bytes_pem(self.private_key, enc.val[1], salt)))
       ELSE Err(enc.err)

\* Mutant: only the first half of the private bytes is encoded.
export_to_mnemonic_half(self) ==
    to_mnemonic(SubSeq(private_bytes_raw(self.private_key), 1, 16))

\* Account.export_to_mnemonic (property)
export_to_mnemonic(self) == to_mnemonic(private_bytes_raw(self.private_key))

\* Mutant: the stored address is cleared before the new value is validated.
address_setter_clear_first(self, value) ==
    LET r == to_address(value)
    IN [ok |-> r.ok, err |-> r.err,
        self |-> IF r.ok THEN [self EXCEPT !.address = r.val]
                 ELSE [self EXCEPT !.address = None]]

\* Mutant: an int is stored as given, without normalization.
address_setter_raw_int(self, value) ==
    LET r == IF value.t = "int" THEN Ok(value.n) ELSE to_address(value)
    IN [ok |-> r.ok, err |-> r.err,
        self |-> IF r.ok THEN [self EXCEPT !.address = r.val] ELSE self]

\* Account.address setter: the outcome, and self after the call
address_setter(self, value) ==
    LET r == to_address(value)
    IN [ok |-> r.ok, err |-> r.err,
        self |-> IF r.ok THEN [self EXCEPT !.address = r.val] ELSE self]

\* Account.public_key_bytes (property)
public_key_bytes(self) == public_bytes_raw(self.public_key)

\* Account.import_from_bytes(value, address=None)
import_from_bytes(value, address) ==
    LET k == from_private_bytes(value)
    IN IF k.ok THEN Account_init(k.val[1], address) ELSE Err(k.err)

\* Mutant: the password is handed to the loader without str.encode().
import_from_text_no_encode(text, password, address) ==
    LET pem == text_bytes(text)
        private_key == load_pem_private_key(pem, password.s)
    IN IF private_key.ok THEN Account_init(private_key.val[1], address)
       ELSE Err(private_key.err)

\* Mutant: the address is validated before the archive is opened.
import_from_text_address_first(text, password, address) ==
    IF address.t # "None" /\ ~to_address(address).ok THEN Err("InvalidAddress")
    ELSE LET private_key == load_pem_private_key(text_bytes(text), password_bytes(password))
         IN IF private_key.ok THEN Account_init(private_key.val[1], address)
            ELSE Err(private_key.err)

\* Account.import_from_text(text, password, address=None)
import_from_text(text, password, address) ==
    LET pw == password_bytes(password)
        pem == text_bytes(text)
        private_key == load_pem_private_key(pem, pw)
    IN IF private_key.ok THEN Account_init(private_key.val[1], address)
       ELSE Err(private_key.err)

\* Account.import_from_mnemonic(words, address=None)
import_from_mnemonic(words, address) ==
    LET value == to_entropy(words)
    IN IF ~value.ok THEN Err(value.err)
       ELSE LET k == from_private_bytes(value.val[1])
            IN IF k.ok THEN Account_init(k.val[1], address) ELSE Err(k.err)

(***************************************************************************)
(* Inputs the callers draw from.  A profile names the input sets of one    *)
(* specification: the account operations are the same under every profile. *)
(***************************************************************************)
HashTexts == {<<>>, <<0, 0>>, <<10>>, <<0, 10>>}

FileNames == {"key.pem"}

NonNumericStrs ==
    { <<"a", "b", "c">>, <<"-", "1">>, <<>>, <<"#">>, <<"#", "#", "5">>,
      <<"4", "a">>, <<"1", " ", "2">>, <<"#", "-", "1">>, <<" ">>, <<"#", " ", "5">> }

NegativeInts == (-MaxNeg)..(-1)
Addresses == 0..MaxAddr

HashForm(n) == StrV(<<"#">> \o IntToStr(n))
PaddedForm(n) == StrV(<<" ">> \o IntToStr(n) \o <<" ">>)

AddrInputs ==
    {IntV(n) : n \in NegativeInts \cup Addresses}
    \cup {HashForm(n) : n \in Addresses}
    \cup {PaddedForm(n) : n \in Addresses}
    \cup {StrV(s) : s \in NonNumericStrs}
    \cup {AcctV(Some(3)), AcctV(None)}

\* What an empty file holds, and a text that is no PEM archive.
EmptyPem == Archive("", 0, SymKey(<<>>, 0), <<>>)

Pems(passwords, salts) ==
    {private_bytes_pem(k, password_bytes(p), salt) :
        k \in Generate, p \in {q \in passwords : password_bytes(q) # <<>>}, salt \in salts}

Mnemonics == {to_mnemonic(sd).val[1] : sd \in Seeds}

\* Words that are not the export of a key: a failed checksum, an unknown
\* word, a wrong word count, and the mnemonic of 16 bytes.
WordInputs ==
    LET w == to_mnemonic(SeedOf(1)).val[1]
    IN { [w EXCEPT ![Len(w)] = (@ + 1) % Pow2(WORD_BITS)],
         [w EXCEPT ![1] = Pow2(WORD_BITS)],
         SubSeq(w, 1, 3),
         to_mnemonic(SubSeq(SeedOf(1), 1, 16)).val[1] }

BytesInputs == Seeds \cup {SubSeq(sd, 1, ED25519_KEY_SIZE - 1) : sd \in Seeds}

CodecPasswords ==
    {Str(<<>>), Str(<<97>>), Bytes(<<97>>), Str(<<233>>), Bytes(<<195, 169>>)}

\* The address profile: every address form, one password, one salt.
AddressProfile ==
    [ addrs |-> AddrInputs,
      ctor_addrs |-> {NoAddr, IntV(0), IntV(-1), HashForm(MaxAddr), StrV(<<"a", "b", "c">>)},
      passwords |-> {Str(<<>>), Str(<<97>>)},
      salts |-> {0},
      file_passwords |-> {Str(<<>>), Str(<<97>>)},
      file_salts |-> {0},
      texts |-> {Text("str", pem) : pem \in Pems({Str(<<97>>)}, {0})}
                \cup {Text("str", GarbagePem)},
      words |-> Mnemonics \cup {SubSeq(w, 1, 3) : w \in Mnemonics},
      bytes |-> BytesInputs ]

\* The codec profile: every password and salt, every mnemonic, few addresses.
CodecProfile ==
    [ addrs |-> {IntV(7), IntV(-1)},
      ctor_addrs |-> {NoAddr, HashForm(MaxAddr), IntV(-1)},
      passwords |-> CodecPasswords,
      salts |-> 0..(NumSalts - 1),
      file_passwords |-> {Str(<<>>), Str(<<233>>)},
      file_salts |-> {0},
      texts |-> {Text("str", pem) : pem \in Pems(CodecPasswords, 0..(NumSalts - 1))}
                \cup {Text("bytes", pem) : pem \in Pems({Str(<<97>>)}, {0})}
                \cup {Text("str", GarbagePem)},
      words |-> Mnemonics \cup WordInputs,
      bytes |-> BytesInputs ]

(***************************************************************************)
(* The record of the latest call: its inputs, the account it was made on   *)
(* (pre), and what it returned or raised.                                  *)
(***************************************************************************)
NoCall ==
    [op |-> "none", ok |-> TRUE, err |-> "", addr |-> NoAddr, pw |-> Str(<<>>),
     text |-> None, words |-> <<>>, bytes |-> <<>>, hash |-> <<>>, salt |-> 0,
     file |-> "", pre |-> None, ret |-> None, out |-> None]

Returned(op, r) == [NoCall EXCEPT !.op = op, !.ok = r.ok, !.err = r.err]

UnchangedRegistry == UNCHANGED <<registry, rlast, fund, peer, topup>>

\* A constructor call: the caller holds a new Account on success, and no
\* object on failure.
Constructed(r, call) ==
    /\ account = None
    /\ account' = r.val
    /\ last' = [call EXCEPT !.ok = r.ok, !.err = r.err, !.ret = r.val]

\* Account(private_key, address)
NewAccount(P) ==
    \E k \in Generate, a \in P.addrs :
        /\ Constructed(Account_init(k, a),
                       [NoCall EXCEPT !.op = "Account", !.addr = a, !.bytes = k.seed])
        /\ UNCHANGED files
        /\ UnchangedRegistry

\* Account.create()
Create ==
    \E k \in Generate :
        /\ Constructed(Account_init(k, NoAddr),
                       [NoCall EXCEPT !.op = "create", !.bytes = k.seed])
        /\ UNCHANGED files
        /\ UnchangedRegistry

ImportFromBytes(P) ==
    \E value \in P.bytes, a \in P.ctor_addrs :
        /\ Constructed(import_from_bytes(value, a),
                       [NoCall EXCEPT !.op = "import_from_bytes", !.addr = a, !.bytes = value])
        /\ UNCHANGED files
        /\ UnchangedRegistry

ImportFromText(P) ==
    \E text \in P.texts, p \in P.passwords, a \in P.ctor_addrs :
        /\ Constructed(import_from_text(text, p, a),
                       [NoCall EXCEPT !.op = "import_from_text", !.addr = a, !.pw = p,
                                      !.text = Some(text)])
        /\ UNCHANGED files
        /\ UnchangedRegistry

ImportFromMnemonic(P) ==
    \E words \in P.words, a \in P.ctor_addrs :
        /\ Constructed(import_from_mnemonic(words, a),
                       [NoCall EXCEPT !.op = "import_from_mnemonic", !.addr = a,
                                      !.words = words])
        /\ UNCHANGED files
        /\ UnchangedRegistry

\* Account.import_from_file(filename, password, address=None)
ImportFromFile(P) ==
    \E f \in FileNames, p \in P.passwords, a \in P.ctor_addrs :
        LET r == IF files[f] = None THEN Err("IOError")
                 ELSE import_from_text(files[f][1], p, a)
        IN /\ Constructed(r, [NoCall EXCEPT !.op = "import_from_file", !.addr = a, !.pw = p,
                                            !.file = f, !.text = files[f]])
           /\ UNCHANGED files
           /\ UnchangedRegistry

\* The caller lets go of the account (scope exit).
Drop ==
    /\ account # None
    /\ account' = None
    /\ last' = [NoCall EXCEPT !.op = "del"]
    /\ UNCHANGED files
    /\ UnchangedRegistry

Sign ==
    /\ account # None
    /\ \E h \in HashTexts :
        last' = [NoCall EXCEPT !.op = "sign", !.hash = h, !.pre = account,
                               !.out = Some(sign(account[1], h))]
    /\ UNCHANGED <<account, files>>
    /\ UnchangedRegistry

ExportToText(P) ==
    /\ account # None
    /\ \E p \in P.passwords, salt \in P.salts :
        LET r == export_to_text(account[1], p, salt)
        IN last' = [Returned("export_to_text", r) EXCEPT !.pw = p, !.salt = salt,
                                                        !.pre = account, !.out = r.val]
    /\ UNCHANGED <<account, files>>
    /\ UnchangedRegistry

ExportToMnemonic ==
    /\ account # None
    /\ LET r == export_to_mnemonic(account[1])
       IN last' = [Returned("export_to_mnemonic", r) EXCEPT !.pre = account, !.out = r.val]
    /\ UNCHANGED <<account, files>>
    /\ UnchangedRegistry

\* Account.export_to_file(filename, password): open(filename, 'w') creates or
\* truncates the file before export_to_text runs.
ExportToFile(P) ==
    /\ account # None
    /\ \E f \in FileNames, p \in P.file_passwords, salt \in P.file_salts :
        LET r == export_to_text(account[1], p, salt)
        IN /\ files' = [files EXCEPT ![f] = IF r.ok THEN r.val ELSE Some(Text("str", EmptyPem))]
           /\ last' = [Returned("export_to_file", r) EXCEPT !.pw = p, !.salt = salt, !.file = f,
                                                           !.pre = account]
    /\ UNCHANGED account
    /\ UnchangedRegistry

\* Account.address (getter)
GetAddress ==
    /\ account # None
    /\ last' = [NoCall EXCEPT !.op = "address", !.pre = account,
                              !.out = account[1].address]
    /\ UNCHANGED <<account, files>>
    /\ UnchangedRegistry

\* Account.address = value
SetAddress(P) ==
    /\ account # None
    /\ \E v \in P.addrs :
        LET r == address_setter(account[1], v)
        IN /\ account' = Some(r.self)
           /\ last' = [Returned("address.setter", r) EXCEPT !.addr = v, !.pre = account]
    /\ UNCHANGED files
    /\ UnchangedRegistry

(***************************************************************************)
(* The starfish-did-registry contract.  A DID is [id, len]: which DID it   *)
(* is and the length of its text.  The registry maps the hash of a DID to  *)
(* its optional record [owner, ddo]; nil is None.  A call that fails is    *)
(* rolled back: the registry is the one the call started from.             *)
(***************************************************************************)
Did(i) == [id |-> i, len |-> DID_LENGTH]
BadDid == [id |-> 0, len |-> 40]
Dids == {Did(i) : i \in 1..NumDids} \cup {BadDid}
Callers == 1..NumCallers
Ddos == 1..NumDdos

\* The values a caller passes as to-account: an account's address, or
\* something that is no address.
ToAccount(a) == [valid |-> TRUE, a |-> a]
NotAnAddress == [valid |-> FALSE, a |-> 0]
ToAccounts == {ToAccount(c) : c \in Callers} \cup {NotAnAddress}

Hash(did) == [hash_of |-> did]

Failed(reg, err) == [ok |-> FALSE, err |-> err, nil |-> FALSE, registry |-> reg]
Value(reg) == [ok |-> TRUE, err |-> "", nil |-> FALSE, registry |-> reg]
Nil(reg) == [ok |-> TRUE, err |-> "", nil |-> TRUE, registry |-> reg]

\* (def registry {})
EmptyRegistry == [h \in {Hash(d) : d \in Dids} |-> None]

get_register(reg, did) == reg[Hash(did)]

set_register(reg, did, owner_address, ddo) ==
    [reg EXCEPT ![Hash(did)] = Some([owner |-> owner_address, ddo |-> ddo])]

delete_register(reg, did) == [reg EXCEPT ![Hash(did)] = None]

\* (defn assert-did [value] ...): does it pass
assert_did(value) == value.len = DID_LENGTH

\* (defn assert-address [value] ...): does it pass
assert_address(value) == value.valid

resolve_q(reg, did) == get_register(reg, did) # None

resolve(reg, did) ==
    LET register_record == get_register(reg, did)
    IN IF register_record # None THEN Some(register_record[1].ddo) ELSE None

owner(reg, did) ==
    LET register_record == get_register(reg, did)
    IN IF register_record # None THEN Some(register_record[1].owner) ELSE None

owner_q(reg, did, caller) == owner(reg, did) = Some(caller)

\* (defn assert-owner [did] ...): does it pass
assert_owner(reg, did, caller) == owner_q(reg, did, caller)

\* Mutant: register without the owner assertion.
register_no_owner_check(reg, caller, did, ddo) ==
    IF ~assert_did(did) THEN Failed(reg, "INVALID")
    ELSE Value(set_register(reg, did, caller, ddo))

register(reg, caller, did, ddo) ==
    IF ~assert_did(did) THEN Failed(reg, "INVALID")
    ELSE IF resolve_q(reg, did) /\ ~assert_owner(reg, did, caller)
    THEN Failed(reg, "NOT-OWNER")
    ELSE Value(set_register(reg, did, caller, ddo))

unregister(reg, caller, did) ==
    IF resolve_q(reg, did)
    THEN IF ~assert_owner(reg, did, caller) THEN Failed(reg, "NOT-OWNER")
         ELSE Value(delete_register(reg, did))
    ELSE Nil(reg)

\* Mutant: the record is rewritten with *caller* as its owner.
transfer_to_caller(reg, caller, did, to_account) ==
    IF resolve_q(reg, did)
    THEN IF ~assert_owner(reg, did, caller) THEN Failed(reg, "NOT-OWNER")
         ELSE IF ~assert_address(to_account) THEN Failed(reg, "INVALID")
         ELSE Value(set_register(reg, did, caller, resolve(reg, did)[1]))
    ELSE Nil(reg)

transfer(reg, caller, did, to_account) ==
    IF resolve_q(reg, did)
    THEN IF ~assert_owner(reg, did, caller) THEN Failed(reg, "NOT-OWNER")
         ELSE IF ~assert_address(to_account) THEN Failed(reg, "INVALID")
         ELSE Value(set_register(reg, did, to_account.a, resolve(reg, did)[1]))
    ELSE Nil(reg)

\* The record of the latest contract call sent, and the registry before it.
NoRegistry ==
    [op |-> "none", caller |-> 0, did |-> BadDid, ddo |-> 0, to |-> NotAnAddress,
     ok |-> TRUE, err |-> "", nil |-> FALSE, pre |-> EmptyRegistry]

Sent(op, caller, did, r) ==
    [NoRegistry EXCEPT !.op = op, !.caller = caller, !.did = did, !.ok = r.ok,
                       !.err = r.err, !.nil = r.nil, !.pre = registry]

UnchangedAccount == UNCHANGED <<account, files, last, fund, peer, topup>>

\* convex.send('(call contract (register did ddo))', account)
Register ==
    \E caller \in Callers, did \in Dids, ddo \in Ddos :
        LET r == register(registry, caller, did, ddo)
        IN /\ registry' = r.registry
           /\ rlast' = [Sent("register", caller, did, r) EXCEPT !.ddo = ddo]
           /\ UnchangedAccount

\* convex.send('(call contract (unregister did))', account)
Unregister ==
    \E caller \in Callers, did \in Dids :
        LET r == unregister(registry, caller, did)
        IN /\ registry' = r.registry
           /\ rlast' = Sent("unregister", caller, did, r)
           /\ UnchangedAccount

\* convex.send('(call contract (transfer did to-account))', account)
Transfer ==
    \E caller \in Callers, did \in Dids, to_account \in ToAccounts :
        LET r == transfer(registry, caller, did, to_account)
        IN /\ registry' = r.registry
           /\ rlast' = [Sent("transfer", caller, did, r) EXCEPT !.to = to_account]
           /\ UnchangedAccount

(***************************************************************************)
(* AccountFundCommand.execute, one step for each statement that talks to   *)
(* the ledger, the key store or the output.  calls is the log of ledger    *)
(* calls, errors the number of output.add_error calls, values what         *)
(* output.set_value stored.  A ledger call may raise, which ends the run.  *)
(***************************************************************************)
\* args.name_address as typed: empty, an address, a registered name.
NameAddresses == {<<>>, <<"#", "7">>, <<"7">>, <<"b", "o", "b">>}

\* What convex.resolve_account_name can return.
Resolutions == {NoAddr, IntV(0), IntV(5)}

NoValues == [amount |-> None, balance |-> None, address |-> None, name |-> None]

FundIdle ==
    [pc |-> "idle", name_address |-> <<>>, amount |-> 0, address |-> NoAddr, name |-> None,
     checked |-> None, load |-> "pending", calls |-> <<>>, errors |-> 0, lines |-> 0,
     granted |-> 0, balance |-> 0, values |-> NoValues]

\* CommandBase.is_address(value)
is_address(value) == value.t # "None" /\ to_address(value).ok

\* "if not address": None and 0 are falsy, and so is an empty str.
not_address(address) ==
    \/ address.t = "None"
    \/ address.t = "int" /\ address.n = 0
    \/ address.t = "str" /\ address.s = <<>>

\* Mutant: the return after output.add_error is missing.
after_address_check_no_return(ok) == "load"

\* Where execute goes after "if not self.is_address(address)".
after_address_check(ok) == IF ok THEN "load" ELSE "done"

\* Where execute goes after "if not import_account".
after_load_account(found) == IF found THEN "request" ELSE "done"

UnchangedButFund == UNCHANGED <<account, files, last, registry, rlast, peer, topup>>

\* convex = self.load_convex(args.url), with the parsed arguments
FundStart ==
    /\ fund.pc = "idle"
    /\ \E na \in NameAddresses, amount \in 1..MaxAmount :
        fund' = [FundIdle EXCEPT !.pc = "resolve", !.name_address = na, !.amount = amount]
    /\ UnchangedButFund

\* if args.name_address: ...; if not address: address = args.name_address
FundResolve ==
    /\ fund.pc = "resolve"
    /\ IF fund.name_address # <<>>
       THEN \/ \E r \in Resolutions :
                fund' = [fund EXCEPT !.pc = "check",
                                     !.calls = Append(@, "resolve_account_name"),
                                     !.address = IF not_address(r) THEN StrV(fund.name_address)
                                                 ELSE r,
                                     !.name = Some(fund.name_address)]
            \/ fund' = [fund EXCEPT !.pc = "raised",
                                    !.calls = Append(@, "resolve_account_name")]
       ELSE fund' = [fund EXCEPT !.pc = "check", !.address = StrV(fund.name_address)]
    /\ UnchangedButFund

\* if not self.is_address(address): output.add_error(...); return
FundCheck ==
    /\ fund.pc = "check"
    /\ LET ok == is_address(fund.address)
       IN fund' = [fund EXCEPT !.pc = after_address_check(ok),
                               !.checked = Some(ok),
                               !.errors = IF ok THEN @ ELSE @ + 1]
    /\ UnchangedButFund

\* import_account = load_account(args); if not import_account: ...; return
FundLoad ==
    /\ fund.pc = "load"
    /\ \E found \in BOOLEAN :
        fund' = [fund EXCEPT !.pc = after_load_account(found),
                             !.load = IF found THEN "account" ELSE "none",
                             !.errors = IF found THEN @ ELSE @ + 1]
    /\ UnchangedButFund

\* account = Account.import_from_account(...); amount = convex.request_funds(...)
FundRequest ==
    /\ fund.pc = "request"
    /\ \/ fund' = [fund EXCEPT !.pc = "balance", !.calls = Append(@, "request_funds"),
                               !.granted = fund.amount]
       \/ fund' = [fund EXCEPT !.pc = "raised", !.calls = Append(@, "request_funds")]
    /\ UnchangedButFund

\* balance = convex.get_balance(account)
FundBalance ==
    /\ fund.pc = "balance"
    /\ \/ \E b \in 0..MaxAmount :
            fund' = [fund EXCEPT !.pc = "output", !.calls = Append(@, "get_balance"),
                                 !.balance = fund.granted + b]
       \/ fund' = [fund EXCEPT !.pc = "raised", !.calls = Append(@, "get_balance")]
    /\ UnchangedButFund

\* output.add_line(...); output.set_value(...) for amount, balance, address, name
FundOutput ==
    /\ fund.pc = "output"
    /\ fund' = [fund EXCEPT !.pc = "done", !.lines = @ + 1,
                            !.values = [amount |-> Some(fund.granted),
                                        balance |-> Some(fund.balance),
                                        address |-> Some(fund.address),
                                        name |-> fund.name]]
    /\ UnchangedButFund

FundNext ==
    \/ FundStart
    \/ FundResolve
    \/ FundCheck
    \/ FundLoad
    \/ FundRequest
    \/ FundBalance
    \/ FundOutput

(***************************************************************************)
(* PeerCreateCommand.execute, one step for each ledger call.  calls is the *)
(* log of ledger calls: the operation, and in n the amount asked for, the  *)
(* balance read or the stake sent.  A ledger call may raise, which ends    *)
(* the run.                                                                *)
(***************************************************************************)
Call(op, n) == [op |-> op, n |-> n]

\* typed_args.name: absent, empty, or a name to register.
PeerNames == {None, Some(<<>>), Some(<<"p", "1">>)}

PeerIdle ==
    [pc |-> "idle", topup |-> FALSE, name |-> None, imported |-> FALSE, i |-> 0,
     balance |-> 0, stake_amount |-> 0, account_name |-> None, calls |-> <<>>,
     values |-> [balance |-> None, stake |-> None, name |-> None]]

\* "if typed_args.name": None and the empty string are falsy.
truthy_name(name) == name # None /\ name[1] # <<>>

\* Mutant: the stake is rounded to the nearest integer.
stake_amount_rounded(balance) == (balance * 98 + 50) \div 100

\* math.floor(balance * 0.98): for a balance below 2^48 the double product
\* has the floor of the exact 98 * balance / 100; the ledger gives a newly
\* created account 4 * DEFAULT_FUND_AMOUNT, far below that.
stake_amount(balance) == (balance * 98) \div 100

UnchangedButPeer == UNCHANGED <<account, files, last, registry, rlast, fund, topup>>

PeerRaise(op, n) ==
    peer' = [peer EXCEPT !.pc = "raised", !.calls = Append(@, Call(op, n))]

\* typed_args, load_convex, import_key_pair or KeyPair()
PeerStart ==
    /\ peer.pc = "idle"
    /\ \E with_topup \in BOOLEAN, name \in PeerNames, imported \in BOOLEAN :
        peer' = [PeerIdle EXCEPT !.pc = "create", !.topup = with_topup, !.name = name,
                                 !.imported = imported]
    /\ UnchangedButPeer

\* account = convex.create_account(key_pair)
PeerCreateAccount ==
    /\ peer.pc = "create"
    /\ \/ peer' = [peer EXCEPT !.pc = IF peer.topup THEN "fund"
                                      ELSE IF truthy_name(peer.name) THEN "topup"
                                      ELSE "balance",
                               !.calls = Append(@, Call("create_account", 0))]
       \/ PeerRaise("create_account", 0)
    /\ UnchangedButPeer

\* for _ in range(4): convex.request_funds(DEFAULT_FUND_AMOUNT, account)
PeerRequestFunds ==
    /\ peer.pc = "fund"
    /\ peer.i < FUND_ROUNDS
    /\ \/ peer' = [peer EXCEPT !.i = @ + 1,
                               !.pc = IF peer.i + 1 < FUND_ROUNDS THEN "fund"
                                      ELSE IF truthy_name(peer.name) THEN "topup"
                                      ELSE "balance",
                               !.calls = Append(@, Call("request_funds", DEFAULT_FUND_AMOUNT))]
       \/ PeerRaise("request_funds", DEFAULT_FUND_AMOUNT)
    /\ UnchangedButPeer

\* convex.topup_account(account)
PeerTopupAccount ==
    /\ peer.pc = "topup"
    /\ \/ peer' = [peer EXCEPT !.pc = "register",
                               !.calls = Append(@, Call("topup_account", 0))]
       \/ PeerRaise("topup_account", 0)
    /\ UnchangedButPeer

\* account = convex.register_account_name(typed_args.name, account)
PeerRegisterName ==
    /\ peer.pc = "register"
    /\ \/ peer' = [peer EXCEPT !.pc = "balance", !.account_name = peer.name,
                               !.calls = Append(@, Call("register_account_name", 0))]
       \/ PeerRaise("register_account_name", 0)
    /\ UnchangedButPeer

\* balance = convex.get_balance(account); stake_amount = math.floor(balance * 0.98)
PeerGetBalance ==
    /\ peer.pc = "balance"
    /\ \/ \E b \in 0..MaxBalance :
            peer' = [peer EXCEPT !.pc = "send", !.balance = b,
                                 !.stake_amount = stake_amount(b),
                                 !.calls = Append(@, Call("get_balance", b))]
       \/ PeerRaise("get_balance", 0)
    /\ UnchangedButPeer

\* convex.send(create_peer_command, account)
PeerSend ==
    /\ peer.pc = "send"
    /\ \/ peer' = [peer EXCEPT !.pc = "values",
                               !.calls = Append(@, Call("send", peer.stake_amount))]
       \/ PeerRaise("send", peer.stake_amount)
    /\ UnchangedButPeer

\* values = {..., 'balance': convex.get_balance(account), 'stake': stake_amount}
PeerOutput ==
    /\ peer.pc = "values"
    /\ \/ \E b \in 0..MaxBalance :
            peer' = [peer EXCEPT !.pc = "done",
                                 !.calls = Append(@, Call("get_balance", b)),
                                 !.values = [balance |-> Some(b),
                                             stake |-> Some(peer.stake_amount),
                                             name |-> IF truthy_name(peer.account_name)
                                                      THEN peer.account_name ELSE None]]
       \/ PeerRaise("get_balance", 0)
    /\ UnchangedButPeer

PeerNext ==
    \/ PeerStart
    \/ PeerCreateAccount
    \/ PeerRequestFunds
    \/ PeerTopupAccount
    \/ PeerRegisterName
    \/ PeerGetBalance
    \/ PeerSend
    \/ PeerOutput

(***************************************************************************)
(* auto_topup_account of the contract tests, one step for each ledger call *)
(* and each test of the loop condition.  requests counts the request_funds *)
(* calls made, first is the balance of the first read.  The ledger answers *)
(* every read with any balance, and a ledger call may raise.               *)
(***************************************************************************)
\* The balances the ledger may report, in halves of the amount requested.
Balances == {k * (AMOUNT \div 2) : k \in 0..MaxUnits}

\* The min_balance arguments the tests pass.
MinBalances == {None, Some(40000000), Some(50000000)}

TopupIdle ==
    [pc |-> "idle", min_balance |-> 0, balance |-> 0, first |-> None,
     retry_counter |-> 0, requests |-> 0]

\* Mutant: the loop goes on while the counter is not negative.
loop_continues_inclusive(balance, min_balance, retry_counter) ==
    balance < min_balance /\ retry_counter >= 0

\* while balance < min_balance and retry_counter > 0
loop_continues(balance, min_balance, retry_counter) ==
    balance < min_balance /\ retry_counter > 0

UnchangedButTopup == UNCHANGED <<account, files, last, registry, rlast, fund, peer>>

TopupRaise == topup' = [topup EXCEPT !.pc = "raised"]

\* amount = 10000000; retry_counter = 100; if min_balance is None: ...
TopupCall ==
    /\ topup.pc = "idle"
    /\ \E min_balance \in MinBalances :
        topup' = [TopupIdle EXCEPT !.pc = "read",
                                   !.retry_counter = RETRY_COUNTER,
                                   !.min_balance = IF min_balance = None THEN AMOUNT
                                                   ELSE min_balance[1]]
    /\ UnchangedButTopup

\* balance = convex.get_balance(account), before the loop
TopupFirstRead ==
    /\ topup.pc = "read"
    /\ \/ \E b \in Balances :
            topup' = [topup EXCEPT !.pc = "test", !.balance = b, !.first = Some(b)]
       \/ TopupRaise
    /\ UnchangedButTopup

\* the test of the while condition
TopupTest ==
    /\ topup.pc = "test"
    /\ topup' = [topup EXCEPT !.pc =
            IF loop_continues(topup.balance, topup.min_balance, topup.retry_counter)
            THEN "request" ELSE "returned"]
    /\ UnchangedButTopup

\* request_amount = convex.request_funds(amount, account)
TopupRequest ==
    /\ topup.pc = "request"
    /\ \/ topup' = [topup EXCEPT !.pc = "reread", !.requests = @ + 1]
       \/ topup' = [topup EXCEPT !.pc = "raised", !.requests = @ + 1]
    /\ UnchangedButTopup

\* balance = convex.get_balance(account); retry_counter -= 1
TopupReread ==
    /\ topup.pc = "reread"
    /\ \/ \E b \in Balances :
            topup' = [topup EXCEPT !.pc = "test", !.balance = b,
                                   !.retry_counter = @ - 1]
       \/ TopupRaise
    /\ UnchangedButTopup

TopupNext ==
    \/ TopupCall
    \/ TopupFirstRead
    \/ TopupTest
    \/ TopupRequest
    \/ TopupReread

Init ==
    /\ account = None
    /\ files = [f \in FileNames |-> None]
    /\ last = NoCall
    /\ registry = EmptyRegistry
    /\ rlast = NoRegistry
    /\ fund = FundIdle
    /\ peer = PeerIdle
    /\ topup = TopupIdle

Next ==
    \/ NewAccount(AddressProfile)
    \/ Create
    \/ ImportFromBytes(AddressProfile)
    \/ ImportFromText(AddressProfile)
    \/ ImportFromMnemonic(AddressProfile)
    \/ ImportFromFile(AddressProfile)
    \/ Drop
    \/ Sign
    \/ ExportToText(AddressProfile)
    \/ ExportToMnemonic
    \/ ExportToFile(AddressProfile)
    \/ GetAddress
    \/ SetAddress(AddressProfile)

CodecNext ==
    \/ NewAccount(CodecProfile)
    \/ Create
    \/ ImportFromBytes(CodecProfile)
    \/ ImportFromText(CodecProfile)
    \/ ImportFromMnemonic(CodecProfile)
    \/ ImportFromFile(CodecProfile)
    \/ Drop
    \/ Sign
    \/ ExportToText(CodecProfile)
    \/ ExportToMnemonic
    \/ ExportToFile(CodecProfile)
    \/ GetAddress
    \/ SetAddress(CodecProfile)

RegistryNext ==
    \/ Register
    \/ Unregister
    \/ Transfer

Spec == Init /\ [][Next]_vars

RegistrySpec == Init /\ [][RegistryNext]_vars

CodecSpec == Init /\ [][CodecNext]_vars

FundSpec == Init /\ [][FundNext]_vars

PeerSpec == Init /\ [][PeerNext]_vars

\* The test runs auto_topup_account in one thread, which keeps executing
\* while it has a statement to execute.
TopupSpec == Init /\ [][TopupNext]_vars /\ WF_vars(TopupNext)

(***************************************************************************)
(* Properties of the Account class.                                        *)
(***************************************************************************)
\* The address inputs the claims call invalid: negative, non-numeric, unparsable.
InvalidAddrInputs ==
    {IntV(n) : n \in NegativeInts} \cup {StrV(s) : s \in NonNumericStrs} \cup {AcctV(None)}

\* The account Account(k) builds around the key k, with no address.
AccountOf(k) == Account_init(k, NoAddr).val[1]

\* Same public_key_bytes, same raw private bytes, same signature for each hash.
SameKeyMaterial(a, b) ==
    /\ public_key_bytes(a) = public_key_bytes(b)
    /\ private_bytes_raw(a.private_key) = private_bytes_raw(b.private_key)
    /\ \A h \in HashTexts : sign(a, h) = sign(b, h)

\* text is what k.export_to_text(password) returned under some salt
IsExportOf(text, k, password) ==
    \E salt \in CodecProfile.salts :
        LET e == export_to_text(AccountOf(k), password, salt)
        IN e.ok /\ e.val = text

\* An import_from_text call on the archive a key exported under the very
\* password now given (with no address, or one that parses) returns an
\* account with that key's material.
ImportRestoresExport ==
    (last.op = "import_from_text" /\ last.addr \notin InvalidAddrInputs) =>
        \A k \in Generate :
            IsExportOf(last.text, k, last.pw) =>
                /\ last.ok
                /\ SameKeyMaterial(last.ret[1], AccountOf(k))

\* C1 as stated: under every password p, export_to_text(p) yields an archive
\* and import_from_text of it under p returns an account with k's key material.
C1_RoundTripEveryPassword ==
    /\ (last.op = "export_to_text" => last.ok)
    /\ ImportRestoresExport

\* C1 amended: under every non-empty password p, export_to_text(p) yields an
\* archive and import_from_text of it under p returns an account with the same
\* public_key_bytes, raw private bytes and signatures; an empty password is
\* refused by export_to_text.
C1_RoundTripNonEmptyPassword ==
    /\ (last.op = "export_to_text" => (last.ok <=> password_bytes(last.pw) # <<>>))
    /\ ImportRestoresExport

C1_Witness ==
    /\ last.op = "import_from_text"
    /\ last.ok
    /\ last.pw = Str(<<233>>)
    /\ \E k \in Generate : IsExportOf(last.text, k, last.pw)

\* C2: import_from_mnemonic of the words a key exported (with no address, or
\* one that parses) returns an account
\* with the same raw private bytes and public_key_bytes, and the exported
\* words always decode to exactly the private bytes they were made from.
C2_MnemonicRoundTrip ==
    /\ (last.op = "import_from_mnemonic" /\ last.addr \notin InvalidAddrInputs) =>
        \A k \in Generate :
            export_to_mnemonic(AccountOf(k)) = Ok(last.words) =>
                /\ last.ok
                /\ private_bytes_raw(last.ret[1].private_key) = private_bytes_raw(k)
                /\ public_key_bytes(last.ret[1]) = public_key_bytes(AccountOf(k))
    /\ last.op = "export_to_mnemonic" =>
        /\ last.ok
        /\ to_entropy(last.out[1]) = Ok(private_bytes_raw(last.pre[1].private_key))

C2_Witness ==
    /\ last.op = "import_from_mnemonic"
    /\ last.ok
    /\ \E k \in Generate : export_to_mnemonic(AccountOf(k)) = Ok(last.words)

\* The call imports an archive some key exported under a password whose
\* bytes differ from those of the password now given.
WrongPasswordImport ==
    /\ last.op = "import_from_text"
    /\ \E k \in Generate, q \in CodecPasswords :
        /\ IsExportOf(last.text, k, q)
        /\ password_bytes(q) # password_bytes(last.pw)

\* C3: import_from_text of a well-formed encrypted archive under a password
\* other than the one it was exported with fails with DecryptionError and
\* returns no account, whatever address is forwarded.
C3_WrongPasswordFails ==
    WrongPasswordImport =>
        /\ ~last.ok
        /\ last.err = "DecryptionError"
        /\ last.ret = None
        /\ account = None

C3_Witness ==
    /\ WrongPasswordImport
    /\ last.err = "DecryptionError"
    /\ last.addr = IntV(-1)

\* C4: on a bound account with address A, setting an invalid address raises
\* InvalidAddress and leaves the address A and the key material as they were.
C4_FailedBindKeepsAddress ==
    ( /\ last.op = "address.setter"
      /\ last.pre[1].address # None
      /\ last.addr \in InvalidAddrInputs )
    =>  /\ ~last.ok
        /\ last.err = "InvalidAddress"
        /\ account = last.pre

C4_Witness ==
    /\ last.op = "address.setter"
    /\ last.pre[1].address = Some(MaxAddr)
    /\ last.addr = StrV(<<"#", "-", "1">>)
    /\ ~last.ok

ConstructorOps ==
    {"Account", "create", "import_from_bytes", "import_from_text",
     "import_from_mnemonic", "import_from_file"}

\* The key material of the latest constructor call decodes: the same call
\* without an address succeeds.
KeyDecodes ==
    CASE last.op \in {"Account", "create"} -> TRUE
      [] last.op = "import_from_bytes" -> import_from_bytes(last.bytes, NoAddr).ok
      [] last.op = "import_from_text" -> import_from_text(last.text[1], last.pw, NoAddr).ok
      [] last.op = "import_from_mnemonic" -> import_from_mnemonic(last.words, NoAddr).ok
      [] last.op = "import_from_file" ->
            last.text # None /\ import_from_text(last.text[1], last.pw, NoAddr).ok
      [] OTHER -> FALSE

\* C5: a constructor call whose key material decodes yields a bound account
\* holding the normalized address when the supplied address parses, fails
\* with InvalidAddress and yields no account when it does not, and yields an
\* unbound account exactly when no address is supplied.
C5_Construction ==
    last.op \in ConstructorOps =>
        /\ (last.addr \in InvalidAddrInputs =>
                ~last.ok /\ last.ret = None /\ account = None)
        /\ (last.addr \in InvalidAddrInputs /\ KeyDecodes => last.err = "InvalidAddress")
        /\ (last.addr \notin InvalidAddrInputs /\ KeyDecodes => last.ok)
        /\ (last.ok =>
                /\ account = last.ret
                /\ (last.addr = NoAddr <=> last.ret[1].address = None)
                /\ (last.addr # NoAddr => last.ret[1].address = to_address(last.addr).val))

C5_Witness ==
    /\ last.op = "import_from_bytes"
    /\ last.addr = IntV(0)
    /\ last.ok
    /\ last.ret[1].address = Some(0)

\* C6: the stored address is unset or a non-negative integer in every
\* reachable state, and a successful write stores to_address of the value.
C6_AddressInvariant ==
    /\ account # None =>
        \/ account[1].address = None
        \/ Len(account[1].address) = 1 /\ account[1].address[1] >= 0
    /\ (last.op = "address.setter" /\ last.ok) =>
        account[1].address = to_address(last.addr).val

C6_Witness ==
    /\ last.op = "address.setter"
    /\ last.ok
    /\ last.pre[1].address = Some(0)
    /\ last.addr = PaddedForm(MaxAddr)
    /\ account[1].address = Some(MaxAddr)

\* C7: normalizing n, "#" + str(n) and " " + str(n) + " " yields n for every
\* non-negative n; every negative integer and every non-numeric string is
\* refused with InvalidAddress.  Stated of each normalization a bind performs.
C7_NormalizationTotality ==
    last.op = "address.setter" =>
        /\ \A n \in Addresses :
            last.addr \in {IntV(n), HashForm(n), PaddedForm(n)} =>
                last.ok /\ account[1].address = Some(n)
        /\ (last.addr \in {IntV(n) : n \in NegativeInts} \cup {StrV(s) : s \in NonNumericStrs}) =>
                ~last.ok /\ last.err = "InvalidAddress"

C7_Witness ==
    /\ last.op = "address.setter"
    /\ last.addr = HashForm(MaxAddr)
    /\ last.ok
    /\ account[1].address = Some(MaxAddr)

MethodOps ==
    {"sign", "export_to_text", "export_to_mnemonic", "export_to_file", "address",
     "address.setter"}

\* C8: a method call leaves the private and the public key of the account as
\* they were, and the public key is always the one the private key derives.
C8_KeyMaterialImmutable ==
    /\ account # None => account[1].public_key = public_key_of(account[1].private_key)
    /\ last.op \in MethodOps =>
        /\ account # None
        /\ account[1].private_key = last.pre[1].private_key
        /\ account[1].public_key = last.pre[1].public_key

C8_Witness ==
    /\ last.op = "address.setter"
    /\ ~last.ok
    /\ account # None
    /\ account[1].private_key = [seed |-> SeedOf(NumKeys)]
    /\ files["key.pem"] # None

(***************************************************************************)
(* Properties of the DID registry contract.                                *)
(***************************************************************************)
\* The latest call was made on a DID that was registered when it was sent.
OnRegistered == rlast.op # "none" /\ resolve_q(rlast.pre, rlast.did)

FormerOwner == owner(rlast.pre, rlast.did)[1]

\* C9: on a registered DID, register and unregister sent by anyone but its
\* owner fail with NOT-OWNER and leave the registry as it was; the owner's
\* register replaces the DDO, and the owner's unregister removes the record,
\* after which resolve returns nil.
C9_RegistryOwnership ==
    (OnRegistered /\ rlast.op \in {"register", "unregister"}) =>
        /\ rlast.caller # FormerOwner =>
            /\ ~rlast.ok
            /\ rlast.err = "NOT-OWNER"
            /\ registry = rlast.pre
        /\ (rlast.caller = FormerOwner /\ rlast.op = "register") =>
            /\ rlast.ok
            /\ registry = [rlast.pre EXCEPT ![Hash(rlast.did)] =
                              Some([owner |-> rlast.caller, ddo |-> rlast.ddo])]
            /\ resolve(registry, rlast.did) = Some(rlast.ddo)
        /\ (rlast.caller = FormerOwner /\ rlast.op = "unregister") =>
            /\ rlast.ok
            /\ ~rlast.nil
            /\ registry = [rlast.pre EXCEPT ![Hash(rlast.did)] = None]
            /\ resolve(registry, rlast.did) = None

C9_Witness ==
    /\ OnRegistered
    /\ rlast.op = "register"
    /\ rlast.caller # FormerOwner
    /\ rlast.err = "NOT-OWNER"
    /\ resolve(rlast.pre, rlast.did) # Some(rlast.ddo)

\* The latest call was the owner's transfer of a registered DID to another account.
Transferred ==
    /\ OnRegistered
    /\ rlast.op = "transfer"
    /\ rlast.caller = FormerOwner
    /\ rlast.to.valid
    /\ rlast.to.a # rlast.caller

C10_AfterTransfer ==
    /\ Transferred =>
        /\ rlast.ok
        /\ owner_q(registry, rlast.did, rlast.to.a)
        /\ ~owner_q(registry, rlast.did, rlast.caller)
        /\ resolve(registry, rlast.did) = resolve(rlast.pre, rlast.did)
        /\ \A d \in Dids : d # rlast.did => registry[Hash(d)] = rlast.pre[Hash(d)]
    /\ (OnRegistered /\ rlast.op = "transfer" /\ rlast.caller # FormerOwner) =>
        /\ ~rlast.ok
        /\ rlast.err = "NOT-OWNER"
        /\ registry = rlast.pre

C10_ThenUnregister ==
    (Transferred /\ rlast'.op = "unregister" /\ rlast'.did = rlast.did) =>
        /\ rlast'.caller = rlast.caller =>
            ~rlast'.ok /\ rlast'.err = "NOT-OWNER" /\ registry' = registry
        /\ rlast'.caller = rlast.to.a =>
            rlast'.ok /\ ~rlast'.nil /\ resolve(registry', rlast.did) = None

\* C10: after the owner transfers a registered DID to another account B,
\* owner? holds for B and not for the former owner and the DDO is kept; an
\* unregister sent next by the former owner fails with NOT-OWNER and one sent
\* by B succeeds; a transfer sent by a non-owner fails and changes nothing.
C10_RegistryTransfer == []C10_AfterTransfer /\ [][C10_ThenUnregister]_vars

C10_Witness ==
    /\ Transferred
    /\ rlast.ok
    /\ owner_q(registry, rlast.did, rlast.to.a)
    /\ owner_q(rlast.pre, rlast.did, rlast.caller)

(***************************************************************************)
(* Properties of AccountFundCommand.execute.                               *)
(***************************************************************************)
Called(log, what) == \E i \in 1..Len(log) : log[i] = what

\* The run found its address to be no address, or found no account to load.
FundRejected == fund.checked = Some(FALSE) \/ fund.load = "none"

\* C11: a run whose address fails is_address, or for which load_account
\* returns no account, never calls request_funds or get_balance, adds exactly
\* one error, sets no value and ends there.
C11_NoFundsOnRejection ==
    FundRejected =>
        /\ ~Called(fund.calls, "request_funds")
        /\ ~Called(fund.calls, "get_balance")
        /\ fund.errors = 1
        /\ fund.lines = 0
        /\ fund.values = NoValues
        /\ fund.pc = "done"

C11_Witness ==
    /\ fund.load = "none"
    /\ fund.checked = Some(TRUE)
    /\ fund.address = IntV(5)
    /\ fund.errors = 1
    /\ fund.pc = "done"

(***************************************************************************)
(* Properties of PeerCreateCommand.execute.                                *)
(***************************************************************************)
Ops(log) == [i \in 1..Len(log) |-> log[i].op]

Repeat(x, n) == [i \in 1..n |-> x]

IsPrefix(a, b) == Len(a) <= Len(b) /\ a = SubSeq(b, 1, Len(a))

\* The ledger calls of a run, in order, up to the create-peer send.
PeerOrder ==
    <<"create_account">>
    \o (IF peer.topup THEN Repeat("request_funds", 4) ELSE <<>>)
    \o (IF peer.name \notin {None, Some(<<>>)}
        THEN <<"topup_account", "register_account_name">> ELSE <<>>)
    \o <<"get_balance", "send">>

\* The calls made so far follow the order, except for a last call that raised.
PeerFollowsOrder ==
    \/ IsPrefix(Ops(peer.calls), PeerOrder \o <<"get_balance">>)
    \/ /\ peer.pc = "raised"
       /\ IsPrefix(Ops(SubSeq(peer.calls, 1, Len(peer.calls) - 1)), PeerOrder \o <<"get_balance">>)

\* The send at position i carries the floor of 0.98 times the balance read
\* just before it, and everything of PeerOrder precedes it.
PeerSendAt(i) ==
    /\ i = Len(PeerOrder)
    /\ Ops(SubSeq(peer.calls, 1, i)) = PeerOrder
    /\ LET balance == peer.calls[i - 1].n
           stake == peer.calls[i].n
       IN /\ 100 * stake <= 98 * balance
          /\ 98 * balance < 100 * (stake + 1)
          /\ stake <= balance

\* C12: the ledger calls come as create_account, four request_funds when
\* topup is set, the name registration when a name is given, a balance read,
\* and one create-peer send whose stake is floor(0.98 * that balance) and
\* never more than the balance.
C12_PeerCreateOrder ==
    /\ PeerFollowsOrder
    /\ \A i \in 1..Len(peer.calls) :
        (peer.calls[i].op = "send" /\ ~(peer.pc = "raised" /\ i = Len(peer.calls)))
            => PeerSendAt(i)
    /\ \A i \in 1..Len(peer.calls) :
        peer.calls[i].op = "request_funds" => peer.calls[i].n = DEFAULT_FUND_AMOUNT

C12_Witness ==
    /\ peer.pc = "values"
    /\ peer.topup
    /\ peer.name = Some(<<"p", "1">>)
    /\ Len(peer.calls) = 9
    /\ peer.calls[8] = Call("get_balance", 75)
    /\ peer.calls[9] = Call("send", 73)

(***************************************************************************)
(* Properties of auto_topup_account.                                       *)
(***************************************************************************)
TopupExited == topup.pc \in {"returned", "raised"}

\* The number of requests never passes 100, none is made when the first
\* balance read reaches min_balance, and on return the last balance read
\* reaches min_balance or exactly 100 requests were made.
TopupBounded ==
    /\ topup.requests <= 100
    /\ (topup.first # None /\ topup.first[1] >= topup.min_balance) => topup.requests = 0
    /\ topup.pc = "returned" =>
        \/ topup.balance >= topup.min_balance
        \/ topup.requests = 100

\* C13: auto_topup_account terminates whatever the ledger answers, after at
\* most 100 request_funds calls, makes no request when the initial balance is
\* at least min_balance, and returns with the last balance read at least
\* min_balance or with exactly 100 requests made.
C13_TopupTerminates == []TopupBounded /\ <>TopupExited

C13_Witness ==
    /\ topup.pc = "returned"
    /\ topup.requests = 100
    /\ topup.retry_counter = 0
    /\ topup.balance < topup.min_balance
    /\ topup.min_balance = 50000000

====
